---- MODULE Spec2Model ----
(***************************************************************************)
(* A model of apiwrappy.py: the retrying GET of RequestEngine, the key and *)
(* term parsers, the three provider wrappers (Yelp, Foursquare, Facebook), *)
(* the csv report writer and main.                                         *)
(*                                                                         *)
(* Python strings are sequences of one-character strings, so that split,   *)
(* strip, join, int() and str() are computed and not assumed.  A Python    *)
(* scalar is a record [t, i, s]: t is its type, i its integer value (or    *)
(* the truth value of a bool) and s its characters.  A JSON object is a    *)
(* TLA+ function from keys to values; an insertion-ordered dict whose      *)
(* order the code observes (a term) is a sequence of [k, v] pairs.         *)
(***************************************************************************)
EXTENDS Integers, Sequences, FiniteSets, TLC

(***************************************************************************)
(* Python values                                                           *)
(***************************************************************************)
PyStr(s) == [t |-> "str", i |-> 0, s |-> s]
PyInt(n) == [t |-> "int", i |-> n, s |-> <<>>]
PyBool(b) == [t |-> "bool", i |-> IF b THEN 1 ELSE 0, s |-> <<>>]
PyNone == [t |-> "none", i |-> 0, s |-> <<>>]
PyEmptyDict == [t |-> "dict", i |-> 0, s |-> <<>>]
Dash == PyStr(<<"-">>)

\* bool(v): the truth value Python gives v in a condition
Truthy(v) ==
    CASE v.t = "str" -> v.s # <<>>
      [] v.t = "int" -> v.i # 0
      [] v.t = "bool" -> v.i = 1
      [] OTHER -> FALSE

Whitespace == {" "}

RECURSIVE LStrip(_)
LStrip(s) == IF s # <<>> /\ Head(s) \in Whitespace THEN LStrip(Tail(s)) ELSE s

RECURSIVE RStrip(_)
RStrip(s) ==
    IF s # <<>> /\ s[Len(s)] \in Whitespace THEN RStrip(SubSeq(s, 1, Len(s) - 1)) ELSE s

\* str.strip()
Strip(s) == RStrip(LStrip(s))

DigitChars == <<"0", "1", "2", "3", "4", "5", "6", "7", "8", "9">>

IsDigit(c) == \E d \in 1..10 : DigitChars[d] = c

DigitVal(c) == (CHOOSE d \in 1..10 : DigitChars[d] = c) - 1

RECURSIVE DigitsToNat(_)
DigitsToNat(s) ==
    IF s = <<>> THEN 0 ELSE 10 * DigitsToNat(SubSeq(s, 1, Len(s) - 1)) + DigitVal(s[Len(s)])

\* int(s) succeeds: optional sign, then digits only (surrounding blanks allowed)
IsIntLiteral(s) ==
    LET u == Strip(s)
        d == IF u # <<>> /\ Head(u) \in {"-", "+"} THEN Tail(u) ELSE u
    IN  d # <<>> /\ \A n \in 1..Len(d) : IsDigit(d[n])

\* int(s), for s with IsIntLiteral(s)
ParseInt(s) ==
    LET u == Strip(s)
    IN  IF Head(u) = "-" THEN 0 - DigitsToNat(Tail(u))
        ELSE IF Head(u) = "+" THEN DigitsToNat(Tail(u))
        ELSE DigitsToNat(u)

RECURSIVE NatToDigits(_)
NatToDigits(n) ==
    IF n < 10 THEN <<DigitChars[n + 1]>>
    ELSE NatToDigits(n \div 10) \o <<DigitChars[(n % 10) + 1]>>

\* str(v), as characters
StrOf(v) ==
    CASE v.t = "str" -> v.s
      [] v.t = "int" -> IF v.i < 0 THEN <<"-">> \o NatToDigits(0 - v.i) ELSE NatToDigits(v.i)
      [] v.t = "bool" -> IF v.i = 1 THEN <<"T", "r", "u", "e">> ELSE <<"F", "a", "l", "s", "e">>
      [] v.t = "dict" -> <<"{", "}">>
      [] OTHER -> <<"N", "o", "n", "e">>

\* sep.join(parts)
RECURSIVE JoinStr(_, _)
JoinStr(parts, sep) ==
    IF parts = <<>> THEN <<>>
    ELSE IF Len(parts) = 1 THEN parts[1]
    ELSE parts[1] \o sep \o JoinStr(Tail(parts), sep)

\* s.replace(c, '') for a one-character c
RECURSIVE RemoveChar(_, _)
RemoveChar(s, c) ==
    IF s = <<>> THEN <<>>
    ELSE IF Head(s) = c THEN RemoveChar(Tail(s), c)
    ELSE <<Head(s)>> \o RemoveChar(Tail(s), c)

\* s.replace(a, b) for one-character a and b
ReplaceChar(s, a, b) == [n \in 1..Len(s) |-> IF s[n] = a THEN b ELSE s[n]]

HasChar(s, c) == \E n \in 1..Len(s) : s[n] = c

IsPrefix(a, b) == Len(a) <= Len(b) /\ SubSeq(b, 1, Len(a)) = a

(***************************************************************************)
(* JSON objects (functions) and insertion-ordered dicts (pair sequences)   *)
(***************************************************************************)
\* obj.get(k, default) on a JSON object
Get(obj, k, default) == IF k \in DOMAIN obj THEN obj[k] ELSE default

DictHas(d, k) == \E n \in 1..Len(d) : d[n].k = k

\* d.get(k), None when absent
DictGet(d, k) ==
    IF DictHas(d, k) THEN d[CHOOSE n \in 1..Len(d) : d[n].k = k].v ELSE PyNone

\* d[k] = v: in place when the key exists, appended otherwise
DictSet(d, k, v) ==
    IF DictHas(d, k) THEN [n \in 1..Len(d) |-> IF d[n].k = k THEN [k |-> k, v |-> v] ELSE d[n]]
    ELSE Append(d, [k |-> k, v |-> v])

\* d after d.pop(k)
DictPop(d, k) == SelectSeq(d, LAMBDA e : e.k # k)

\* list(d.values())
DictValues(d) == [n \in 1..Len(d) |-> d[n].v]

(***************************************************************************)
(* Program constants                                                       *)
(***************************************************************************)
YELP == "yelp"
FOURSQUARE == "foursquare"
FACEBOOK == "facebook"

CSV_HEADERS ==
    <<"QUERY", "TOTAL_API", "TOTAL_EXTRACTED", "SOURCE_LINK", "API_SOURCE", "ID", "NAME",
      "IS_CLOSED", "CATEGORY_1", "CATEGORY_2", "CATEGORY_3", "RATING", "REVIEWS_AMOUNT",
      "LIKES_AMOUNT", "CHECKINS", "PRICE", "LATITUDE", "LONGITUDE", "ADDRESS", "PHONE",
      "WEBSITE", "CREATED_AT_DATE", "RUN_TIMESTAMP">>

KEY_PLACEHOLDER == <<"s", "e", "t", "_", "k", "e", "y", "_", "h", "e", "r", "e">>

\* TERMS_HEADERS of the three wrapper classes
TERMS_HEADERS(alias) ==
    CASE alias = YELP ->
           <<"term", "location", "latitude", "longitude", "radius", "limit">>
      [] alias = FOURSQUARE ->
           <<"query", "near", "latitude", "longitude", "radius", "limit", "foursquare_id">>
      [] alias = FACEBOOK ->
           <<"q", "drop_1", "latitude", "longitude", "radius", "limit", "drop_3",
             "facebook_id">>

\* k.startswith('drop_'), over the header names the wrappers use
StartsWithDrop(k) == k \in {"drop_1", "drop_3"}

\* the fields run() looks at to decide whether a term is skipped
LOCATOR_FIELDS(alias) ==
    CASE alias = YELP -> <<"location", "latitude", "longitude">>
      [] alias = FOURSQUARE -> <<"q", "near", "latitude", "longitude", "foursquare_id">>
      [] alias = FACEBOOK -> <<"q", "latitude", "longitude", "facebook_id">>

yelp_api_results_max_limit == 1000
limit_max_per_offset == 50
offset_step == 50
DEFAULT_ERRORS_LIMIT == 3
FACEBOOK_DEFAULT_LIMIT == 100

\* ','.join(ID_FIELDS) is one fixed string; its characters play no part
ID_FIELDS_JOINED == PyStr(<<"f", "i", "e", "l", "d", "s">>)

\* datetime.utcnow().strftime(...) and date.today().strftime(...): a clock reading
CLOCK == PyStr(<<"t">>)

(***************************************************************************)
(* KeysParser and InputTermsParser                                         *)
(*                                                                         *)
(* A line of the requirements file is [hash, header, value]: the text      *)
(* "#header = value" (hash) or "header = value".  A header is its          *)
(* underscore-separated words.                                             *)
(***************************************************************************)
\* KEYS_LINES: lines that start with '#' and, once stripped, still hold ' = '
KeysLinesOf(file) == SelectSeq(file, LAMBDA l : l.hash /\ Strip(l.value) # <<>>)

\* parse_keys as a bug would have it: the placeholder is taken for a key
RECURSIVE parse_keys_keeping_placeholder(_, _)
parse_keys_keeping_placeholder(lines, wrapper_alias) ==
    IF lines = <<>> THEN <<>>
    ELSE LET l == lines[Len(lines)]
             rest == parse_keys_keeping_placeholder(SubSeq(lines, 1, Len(lines) - 1),
                                                    wrapper_alias)
             key == Strip(l.value)
         IN  IF (\E n \in 1..Len(l.header) : l.header[n] = wrapper_alias) /\ key # <<>>
             THEN DictSet(rest, SelectSeq(l.header, LAMBDA w : w # wrapper_alias), key)
             ELSE rest

\* parse_keys: the keys of the lines whose header names the alias
RECURSIVE parse_keys_from(_, _)
parse_keys_from(lines, wrapper_alias) ==
    IF lines = <<>> THEN <<>>
    ELSE LET l == lines[Len(lines)]
             rest == parse_keys_from(SubSeq(lines, 1, Len(lines) - 1), wrapper_alias)
             key == Strip(l.value)
         IN  IF (\E n \in 1..Len(l.header) : l.header[n] = wrapper_alias)
                /\ key # KEY_PLACEHOLDER /\ key # <<>>
             THEN DictSet(rest, SelectSeq(l.header, LAMBDA w : w # wrapper_alias), key)
             ELSE rest

\* {k: v for k, v in d.items() if v.strip()}
filter_empty_values(d) == SelectSeq(d, LAMBDA e : Strip(e.v.s) # <<>>)

\* {k: v for k, v in zip(terms_headers, row) if not k.startswith('drop_')}
ZipTerm(terms_headers, row) ==
    LET m == IF Len(terms_headers) < Len(row) THEN Len(terms_headers) ELSE Len(row)
        all == [n \in 1..m |-> [k |-> terms_headers[n], v |-> PyStr(row[n])]]
    IN  SelectSeq(all, LAMBDA e : ~StartsWithDrop(e.k))

\* the terms of one input file: the first row is skipped, empty rows too
RECURSIVE TermsOfRows(_, _)
TermsOfRows(rows, terms_headers) ==
    IF rows = <<>> THEN <<>>
    ELSE IF Head(rows) = <<>> THEN TermsOfRows(Tail(rows), terms_headers)
    ELSE <<filter_empty_values(ZipTerm(terms_headers, Head(rows)))>>
         \o TermsOfRows(Tail(rows), terms_headers)

RECURSIVE parse_terms_from(_, _)
parse_terms_from(files, terms_headers) ==
    IF files = <<>> THEN <<>>
    ELSE TermsOfRows(Tail(Head(files)), terms_headers)
         \o parse_terms_from(Tail(files), terms_headers)

\* any(True for i in fields if term.get(i))
HasLocator(term, fields) == \E n \in 1..Len(fields) : Truthy(DictGet(term, fields[n]))

(***************************************************************************)
(* Row builders: one report row per entity                                 *)
(***************************************************************************)
CategoryHeader(n) ==
    CASE n = 1 -> "CATEGORY_1" [] n = 2 -> "CATEGORY_2" [] n = 3 -> "CATEGORY_3"
      [] OTHER -> "CATEGORY_4"

\* the CATEGORY_n entries of a row: category n of the list, read at key `field`
CategoryColumns(categories, field) ==
    [h \in {CategoryHeader(n) : n \in 1..Len(categories)} |->
        Get(categories[CHOOSE n \in 1..Len(categories) : CategoryHeader(n) = h], field, Dash)]

\* len(price) if '$' in price else '-'
PriceCount(obj, field) ==
    LET price == Get(obj, field, Dash)
    IN  IF HasChar(price.s, "$") THEN PyInt(Len(price.s)) ELSE Dash

\* ', '.join(lines), where the default '-' joins to itself
JoinAddress(obj, field) ==
    IF field \in DOMAIN obj THEN PyStr(JoinStr(obj[field], <<",", " ">>)) ELSE Dash

\* the ROW parse_business_search_json_response builds for one business
YelpRow(business, response_json, search_term_str, extracted) ==
    [API_SOURCE |-> PyStr(<<"y", "e", "l", "p">>),
     SOURCE_LINK |-> Get(business, "url", Dash),
     QUERY |-> PyStr(search_term_str),
     TOTAL_API |-> Get(response_json, "total", Dash),
     TOTAL_EXTRACTED |-> PyInt(extracted),
     ID |-> Get(business, "id", Dash),
     NAME |-> Get(business, "name", Dash),
     IS_CLOSED |-> PyStr(StrOf(Get(business, "is_closed", Dash))),
     REVIEWS_AMOUNT |-> Get(business, "review_count", Dash),
     RATING |-> Get(business, "rating", Dash),
     PRICE |-> PriceCount(business, "price"),
     LATITUDE |-> Get(Get(business, "coordinates", <<>>), "latitude", Dash),
     LONGITUDE |-> Get(Get(business, "coordinates", <<>>), "longitude", Dash),
     ADDRESS |-> JoinAddress(Get(business, "location", <<>>), "display_address"),
     PHONE |-> PyStr(RemoveChar(Get(business, "phone", Dash).s, "+")),
     RUN_TIMESTAMP |-> CLOCK]
    @@ CategoryColumns(Get(business, "categories", <<>>), "alias")

\* parse_business_search_json_response: the rows appended for one term
parse_business_search_json_response(businesses, response_json, search_term_str) ==
    [n \in 1..Len(businesses) |->
        YelpRow(businesses[n], response_json, search_term_str, Len(businesses))]

\* datetime.fromtimestamp(epoch).strftime('%d-%m-%Y'): the day the epoch falls on,
\* written here as the day number since 1970
EpochToDate(epoch) == PyStr(<<"d">> \o NatToDigits(epoch \div 86400))

\* the ROW parse_venue_details_json_response builds
FoursquareRow(venue, search_term_str) ==
    LET created_at == Get(venue, "createdAt", Dash)
    IN  [QUERY |-> PyStr(search_term_str),
         SOURCE_LINK |-> Get(venue, "canonicalUrl", Dash),
         API_SOURCE |-> PyStr(<<"f", "o", "u", "r", "s", "q", "u", "a", "r", "e">>),
         ID |-> Get(venue, "id", Dash),
         NAME |-> Get(venue, "name", Dash),
         PHONE |-> Get(Get(venue, "contact", <<>>), "phone", Dash),
         ADDRESS |-> JoinAddress(Get(venue, "location", <<>>), "formattedAddress"),
         LATITUDE |-> Get(Get(venue, "location", <<>>), "lat", Dash),
         LONGITUDE |-> Get(Get(venue, "location", <<>>), "lng", Dash),
         CHECKINS |-> Get(Get(venue, "stats", <<>>), "checkinsCount", Dash),
         WEBSITE |-> Get(venue, "url", Dash),
         PRICE |-> Get(Get(venue, "price", <<>>), "tier", PyEmptyDict),
         RATING |-> Get(venue, "rating", Dash),
         REVIEWS_AMOUNT |-> Get(venue, "ratingSignals", Dash),
         CREATED_AT |-> created_at,
         LIKES_AMOUNT |-> Get(Get(venue, "likes", <<>>), "count", Dash),
         CREATED_AT_DATE |-> IF created_at.t = "int" THEN EpochToDate(created_at.i) ELSE Dash,
         RUN_TIMESTAMP |-> CLOCK]
        @@ CategoryColumns(Get(venue, "categories", <<>>), "name")

\* the ROW parse_places_info_json_response builds
FacebookRow(place, search_term_str) ==
    [QUERY |-> PyStr(search_term_str),
     API_SOURCE |-> PyStr(<<"f", "a", "c", "e", "b", "o", "o", "k">>),
     SOURCE_LINK |-> Get(place, "link", Dash),
     ID |-> PyStr(<<"'">> \o StrOf(Get(place, "id", Dash))),
     NAME |-> Get(place, "name", Dash),
     PHONE |-> Get(place, "phone", Dash),
     ADDRESS |-> Get(place, "single_line_address", Dash),
     LATITUDE |-> Get(Get(place, "location", <<>>), "latitude", Dash),
     LONGITUDE |-> Get(Get(place, "location", <<>>), "longitude", Dash),
     WEBSITE |-> Get(place, "website", Dash),
     PRICE |-> PriceCount(place, "price_range"),
     REVIEWS_AMOUNT |-> PyStr(ReplaceChar(StrOf(Get(place, "rating_count", Dash)), ".", ",")),
     RATING |-> Get(place, "overall_star_rating", Dash),
     IS_CLOSED |-> PyStr(StrOf(Get(place, "is_permanently_closed", Dash))),
     LIKES_AMOUNT |-> Get(Get(place, "engagement", <<>>), "count", Dash),
     CHECKINS |-> Get(place, "checkins", Dash),
     RUN_TIMESTAMP |-> CLOCK]
    @@ CategoryColumns(Get(place, "category_list", <<>>), "name")

\* [{'<id field>': e['id']} for e in entities if e.get('id')]
RECURSIVE IdTerms(_, _)
IdTerms(entities, id_field) ==
    IF entities = <<>> THEN <<>>
    ELSE IF Truthy(Get(Head(entities), "id", PyNone))
         THEN <<<<[k |-> id_field, v |-> Head(entities)["id"]]>>>>
              \o IdTerms(Tail(entities), id_field)
         ELSE IdTerms(Tail(entities), id_field)

\* parse_venues_search_json_response / parse_places_details_json_response
parse_venues_search_json_response(response_json) ==
    IdTerms(Get(Get(response_json, "response", <<>>), "venues", <<>>), "foursquare_id")

parse_places_details_json_response(response_json) ==
    IdTerms(Get(response_json, "data", <<>>), "facebook_id")

(***************************************************************************)
(* FileTools.csv_out: the cell written for header h of a row               *)
(***************************************************************************)
Cell(row, h) ==
    IF Truthy(Get(row, h, PyStr(<<>>))) /\ Strip(StrOf(Get(row, h, PyStr(<<>>)))) # <<>>
    THEN Get(row, h, PyNone)
    ELSE Dash

csv_line(row) == [n \in 1..Len(CSV_HEADERS) |-> Cell(row, CSV_HEADERS[n])]

\* the file csv_out writes: the header row, then one line per buffered row
csv_file(rows) == [header |-> CSV_HEADERS, lines |-> [n \in 1..Len(rows) |-> csv_line(rows[n])]]

(***************************************************************************)
(* The inputs the runs are checked on: requirements files, input csv       *)
(* files, lists of wrapper classes, and the replies of the three APIs      *)
(***************************************************************************)
S_key == <<"k", "1">>
S_bar == <<"b", "a", "r">>
S_NY == <<"N", "Y">>
NoCell == <<>>

KeyLine(hash, header, value) == [hash |-> hash, header |-> header, value |-> value]

\* every provider configured
KeysAll ==
    <<KeyLine(TRUE, <<YELP, "apikey">>, S_key),
      KeyLine(TRUE, <<FOURSQUARE, "client", "id">>, S_key),
      KeyLine(TRUE, <<FOURSQUARE, "client", "secret">>, S_key),
      KeyLine(TRUE, <<FACEBOOK, "access", "token">>, S_key)>>

\* none configured: a placeholder, an empty value, a line without the hash sign
KeysNone ==
    <<KeyLine(TRUE, <<YELP, "apikey">>, KEY_PLACEHOLDER),
      KeyLine(TRUE, <<FOURSQUARE, "client", "id">>, <<" ">>),
      KeyLine(FALSE, <<FACEBOOK, "access", "token">>, S_key)>>

\* Yelp left at its placeholder, the other two configured
KeysSome ==
    <<KeyLine(TRUE, <<YELP, "apikey">>, KEY_PLACEHOLDER),
      KeyLine(TRUE, <<FOURSQUARE, "client", "id">>, S_key),
      KeyLine(TRUE, <<FACEBOOK, "access", "token">>, S_key)>>

RequirementsFiles == {KeysAll, KeysNone, KeysSome}

\* a data row of an input file, in the column order of create_default_input
Row(term, location, latitude, longitude, radius, limit, foursquare_id, facebook_id) ==
    <<term, location, latitude, longitude, radius, limit, foursquare_id, facebook_id>>

INPUT_HEADER ==
    Row(<<"t">>, <<"l">>, <<"l">>, <<"l">>, <<"r">>, <<"l">>, <<"f">>, <<"f">>)

RowLocation == Row(NoCell, S_NY, NoCell, NoCell, NoCell, NoCell, NoCell, NoCell)
RowQuery == Row(S_bar, NoCell, <<" ">>, NoCell, NoCell, NoCell, NoCell, NoCell)
RowCoords == Row(NoCell, NoCell, <<"4">>, <<"5">>, NoCell, <<"3", "0">>, NoCell, NoCell)
RowLatitude == Row(NoCell, NoCell, <<"4">>, NoCell, NoCell, NoCell, NoCell, NoCell)
RowIds == Row(NoCell, NoCell, NoCell, NoCell, NoCell, NoCell, <<"v">>, <<"p">>)
RowRadius == Row(NoCell, NoCell, NoCell, NoCell, <<"9">>, NoCell, NoCell, NoCell)
RowPaged == Row(S_bar, S_NY, NoCell, NoCell, NoCell, <<"1", "2", "0">>, NoCell, NoCell)
RowCeiling == Row(NoCell, S_NY, NoCell, NoCell, NoCell, <<"1", "0", "2", "0">>, NoCell, NoCell)
RowFifty == Row(NoCell, S_NY, NoCell, NoCell, NoCell, <<"5", "0">>, NoCell, NoCell)
RowFiftyOne == Row(NoCell, S_NY, NoCell, NoCell, NoCell, <<"5", "1">>, NoCell, NoCell)
RowHundred == Row(S_bar, NoCell, <<"4">>, <<"5">>, NoCell, <<"1", "0", "0">>, NoCell, NoCell)
RowBadLimit == Row(NoCell, S_NY, NoCell, NoCell, NoCell, <<"x">>, NoCell, NoCell)

File(rows) == <<INPUT_HEADER>> \o rows

InputFiles ==
    {File(<<>>),
     File(<<RowLocation>>),
     File(<<RowQuery, RowRadius>>),
     File(<<RowIds, RowCoords>>),
     File(<<RowCoords, RowCoords>>),
     File(<<RowLocation, RowPaged>>),
     File(<<RowPaged, <<>>, RowLatitude>>),
     File(<<RowCeiling>>),
     File(<<RowFifty, RowFiftyOne>>),
     File(<<RowHundred, RowQuery>>),
     File(<<RowLocation, RowBadLimit>>)}

\* INPUT_FILES: the *_input.csv files of the working directory
InputFileLists == {<<f>> : f \in InputFiles} \cup {<<File(<<RowLocation>>), File(<<RowIds>>)>>}

\* the input files the longer lists of wrapper classes are run on
SmallFileLists ==
    {<<File(<<>>)>>,
     <<File(<<RowLocation>>)>>,
     <<File(<<RowQuery, RowRadius>>)>>,
     <<File(<<RowIds, RowCoords>>)>>,
     <<File(<<RowLocation>>), File(<<RowIds>>)>>}

\* main's argument and INPUT_FILES: one wrapper class on every list of input files,
\* the script's three classes (and shorter lists in another order) on the small ones
Scenarios ==
    ({<<>>, <<YELP>>, <<FOURSQUARE>>, <<FACEBOOK>>} \X InputFileLists)
    \cup ({<<YELP, FOURSQUARE, FACEBOOK>>, <<FACEBOOK, YELP>>, <<FOURSQUARE, YELP>>}
          \X SmallFileLists)

\* the runs the retry limit is varied on
RetryScenarios ==
    {<<<<YELP>>, <<File(<<RowPaged, <<>>, RowLatitude>>)>>>>,
     <<<<FOURSQUARE, FACEBOOK>>, <<File(<<RowLocation>>), File(<<RowIds>>)>>>>,
     <<<<FACEBOOK>>, <<File(<<RowQuery, RowRadius>>)>>>>}

\* what requests.get and response.json() hand back: the response and its JSON
Reply(status, json) == [set |-> TRUE, status |-> status, json |-> json]
NoResponse == [set |-> FALSE, status |-> 0, json |-> <<>>]

BizZero ==
    [id |-> PyStr(<<"a">>), name |-> PyStr(<<"A">>), is_closed |-> PyBool(FALSE),
     review_count |-> PyInt(0), rating |-> PyInt(0), price |-> PyStr(<<"$", "$">>),
     coordinates |-> [latitude |-> PyInt(0), longitude |-> PyInt(7)],
     location |-> [display_address |-> <<<<"1">>, S_NY>>],
     phone |-> PyStr(<<"+", "1">>),
     categories |-> <<[alias |-> PyStr(<<"c">>)], [title |-> PyStr(<<"d">>)]>>]

BizBare == [id |-> PyStr(<<"b">>), name |-> PyStr(<<" ">>), review_count |-> PyInt(3)]

YelpTwo == Reply(200, [businesses |-> <<BizZero, BizBare>>, total |-> PyInt(2)])
YelpOne == Reply(200, [businesses |-> <<BizBare>>, total |-> PyInt(1)])
YelpEmpty == Reply(200, [businesses |-> <<>>, total |-> PyInt(0)])
YelpError == Reply(400, [error |-> PyStr(<<"e">>)])

\* a page with as many businesses as the per-page limit the request asks for
YelpFull ==
    Reply(200, [businesses |-> [n \in 1..limit_max_per_offset |-> BizBare],
                total |-> PyInt(limit_max_per_offset)])

\* the pages of a search whose content varies; later pages are full or empty
RichPages == 2

YelpReplies(at_offset) ==
    IF at_offset < RichPages * offset_step
    THEN {YelpTwo, YelpOne, YelpFull, YelpEmpty, YelpError}
    ELSE {YelpTwo, YelpEmpty}

VenueFull ==
    [id |-> PyStr(<<"v">>), name |-> PyStr(<<"V">>), canonicalUrl |-> PyStr(<<"u">>),
     contact |-> [phone |-> PyStr(<<"2">>)],
     location |-> [lat |-> PyInt(0), lng |-> PyInt(5), formattedAddress |-> <<<<"1">>, S_NY>>],
     categories |-> <<[name |-> PyStr(<<"c">>)]>>,
     stats |-> [checkinsCount |-> PyInt(0)],
     price |-> [tier |-> PyInt(2)], rating |-> PyInt(0), ratingSignals |-> PyInt(4),
     createdAt |-> PyInt(172800), likes |-> [count |-> PyInt(1)]]

VenueBare == [id |-> PyStr(<<"w">>), createdAt |-> PyStr(<<"x">>)]

FoursquareSearchReplies ==
    {Reply(200, [response |-> [venues |-> <<[id |-> PyStr(<<"v">>)],
                                            [name |-> PyStr(<<"n">>)],
                                            [id |-> PyStr(<<"w">>)]>>]]),
     Reply(400, [meta |-> PyStr(<<"e">>)])}

FoursquareDetailReplies(id) ==
    {Reply(200, [response |-> [venue |-> IF id = PyStr(<<"v">>) THEN VenueFull ELSE VenueBare]]),
     Reply(400, [meta |-> PyStr(<<"e">>)])}

PlaceFull ==
    [id |-> PyStr(<<"p">>), name |-> PyStr(<<"P">>), link |-> PyStr(<<"u">>),
     location |-> [latitude |-> PyInt(0), longitude |-> PyInt(5)],
     category_list |-> <<[name |-> PyStr(<<"c">>)]>>,
     price_range |-> PyStr(<<"$">>), rating_count |-> PyInt(0),
     overall_star_rating |-> PyInt(5), is_permanently_closed |-> PyBool(TRUE),
     engagement |-> [count |-> PyInt(0)], checkins |-> PyInt(8)]

PlaceBare == [id |-> PyStr(<<"q">>)]

FacebookSearchReplies ==
    {Reply(200, [data |-> <<[id |-> PyStr(<<"p">>)], [id |-> PyStr(<<"q">>)]>>]),
     Reply(400, [error |-> PyStr(<<"e">>)])}

FacebookInfoReplies(id) ==
    IF id = PyStr(<<"p">>)
    THEN {Reply(200, PlaceFull), Reply(400, [error |-> PyStr(<<"e">>)])}
    ELSE {Reply(200, PlaceBare)}

\* a cap on the attempts of one GET call, for limits that are never reached
MaxAttempts == 5

\* the largest errors_limit a wrapper is constructed with
MaxErrorsLimit == 4

ErrorsLimits == (0 - 1)..MaxErrorsLimit

(***************************************************************************)
(* State                                                                   *)
(***************************************************************************)
VARIABLES
    wrapper_classes,  \* main's argument
    requirements,     \* the lines of KeysParser.PARSE_FROM
    INPUT_FILES,      \* InputTermsParser.INPUT_FILES, with their rows
    errors_limit,     \* the errors_limit the wrappers are constructed with
    DATA,             \* DATA['rows']
    stdout,           \* what main prints about each wrapper
    report,           \* the files csv_out has written
    requests,         \* the GET calls issued so far, each with the reply it got
    wi,               \* main: index of the wrapper class being handled
    pc,               \* where the program is
    keys,             \* wrapper.keys
    terms,            \* wrapper._terms
    response,         \* wrapper._response and wrapper._response_json
    ti,               \* run: index of the term being handled
    search_term_str,  \* run: display string of the current term
    businesses,       \* Yelp run: businesses accumulated for the term
    term_limit_user,  \* Yelp run
    offset,           \* Yelp run
    queue,            \* venues_details_terms / places_details_terms
    qi,               \* detail phase: index of the queue key
    qj,               \* detail phase: index of the term under that key
    errors,           \* GET: errors of the current (or last) call
    attempts,         \* GET: requests.get calls of the current (or last) call
    get_status        \* GET: "idle", "running", "returned" or "raised"

inputVars == <<wrapper_classes, requirements, INPUT_FILES, errors_limit>>
wrapperVars == <<keys, terms, response>>
yelpVars == <<businesses, term_limit_user, offset>>
queueVars == <<queue, qi, qj>>
getVars == <<errors, attempts, get_status>>
vars ==
    <<wrapper_classes, requirements, INPUT_FILES, errors_limit, DATA, stdout, report,
      requests, wi, pc, keys, terms, response, ti, search_term_str, businesses,
      term_limit_user, offset, queue, qi, qj, errors, attempts, get_status>>

\* the class main is handling
cls == wrapper_classes[wi]

parse_keys(wrapper_alias) == parse_keys_from(KeysLinesOf(requirements), wrapper_alias)

parse_terms(terms_headers) == parse_terms_from(INPUT_FILES, terms_headers)

InitProgram ==
    /\ DATA = <<>>
    /\ stdout = <<>>
    /\ report = <<>>
    /\ requests = <<>>
    /\ wi = 1
    /\ pc = "main"
    /\ keys = <<>>
    /\ terms = <<>>
    /\ response = NoResponse
    /\ ti = 0
    /\ search_term_str = <<>>
    /\ businesses = <<>>
    /\ term_limit_user = PyNone
    /\ offset = 0
    /\ queue = <<>>
    /\ qi = 0
    /\ qj = 0
    /\ errors = 0
    /\ attempts = 0
    /\ get_status = "idle"

\* main as the script runs it: every wrapper with the default errors_limit
Init ==
    /\ \E sc \in Scenarios : wrapper_classes = sc[1] /\ INPUT_FILES = sc[2]
    /\ requirements \in RequirementsFiles
    /\ errors_limit = DEFAULT_ERRORS_LIMIT
    /\ InitProgram

(***************************************************************************)
(* RequestEngine.GET                                                       *)
(***************************************************************************)
GetPcs ==
    {"get_yelp_page", "get_yelp_single", "get_foursquare_search", "get_foursquare_detail",
     "get_facebook_search", "get_facebook_info"}

\* the limit test as a bug would have it: the raise comes one failure late
LimitReachedLate(errs) == errs > errors_limit

\* if errors == self._errors_limit
LimitReached(errs) == errs = errors_limit

Event(ev, exc) == [ev |-> ev, cls |-> cls, exc |-> exc]

\* the locals of run() are gone once run() is left
ResetLocals ==
    /\ ti' = 0
    /\ search_term_str' = <<>>
    /\ businesses' = <<>>
    /\ term_limit_user' = PyNone
    /\ offset' = 0
    /\ queue' = <<>>
    /\ qi' = 0
    /\ qj' = 0

\* the handler as a bug would have it: the failure only skips the current term
RaiseSkipsTerm(exc) ==
    /\ stdout' = Append(stdout, Event("FAILED", exc))
    /\ wi' = wi
    /\ pc' = "run"
    /\ ti' = ti + 1
    /\ UNCHANGED <<search_term_str, yelpVars, queueVars>>

\* the handler as a bug would have it: the exception ends main
RaiseEndsMain(exc) ==
    /\ stdout' = Append(stdout, Event("FAILED", exc))
    /\ wi' = wi
    /\ pc' = "done"
    /\ ResetLocals

\* an exception leaves run() and reaches main's `except Exception`
Raise(exc) ==
    /\ stdout' = Append(stdout, Event("FAILED", exc))
    /\ wi' = wi + 1
    /\ pc' = "main"
    /\ ResetLocals

\* self.GET(url, params=params) is entered
GETCall(to, endpoint, id, params, term_index) ==
    /\ requests' = Append(requests, [api |-> cls, endpoint |-> endpoint, id |-> id,
                                     params |-> params, term |-> term_index,
                                     reply |-> NoResponse])
    /\ errors' = 0
    /\ attempts' = 0
    /\ get_status' = "running"
    /\ pc' = to

\* the caller has moved on: the locals of the last GET call are gone
GETGone ==
    /\ errors' = 0
    /\ attempts' = 0
    /\ get_status' = "idle"

\* an attempt succeeds: GET returns (response, response_json)
GETReturns(reply) ==
    /\ attempts < MaxAttempts
    /\ attempts' = attempts + 1
    /\ errors' = errors
    /\ get_status' = "returned"
    /\ response' = reply
    /\ requests' = [requests EXCEPT ![Len(requests)].reply = reply]

\* an attempt raises (network, timeout, a body that is not JSON)
GETFails ==
    /\ pc \in GetPcs
    /\ attempts < MaxAttempts
    /\ attempts' = attempts + 1
    /\ errors' = errors + 1
    /\ IF LimitReached(errors + 1)
       THEN /\ get_status' = "raised"
            /\ Raise("RequestEngineError")
       ELSE /\ UNCHANGED <<get_status, stdout, wi, pc, ti, search_term_str>>
            /\ UNCHANGED <<yelpVars, queueVars>>
    /\ UNCHANGED <<inputVars, DATA, report, requests, wrapperVars>>

(***************************************************************************)
(* main                                                                    *)
(***************************************************************************)
\* wrapper = wrapper_class(); the keys check; run is entered
MainLoop ==
    /\ pc = "main"
    /\ wi <= Len(wrapper_classes)
    /\ keys' = parse_keys(cls)
    /\ terms' = parse_terms(TERMS_HEADERS(cls))
    /\ response' = NoResponse
    /\ IF parse_keys(cls) = <<>>
       THEN /\ stdout' = stdout \o <<Event("RUNNING", "-"), Event("KEYS", "KeysParserError")>>
            /\ wi' = wi + 1
            /\ UNCHANGED <<pc, ti>>
       ELSE /\ stdout' = Append(stdout, Event("RUNNING", "-"))
            /\ pc' = "run"
            /\ ti' = 1
            /\ UNCHANGED wi
    /\ UNCHANGED <<inputVars, DATA, report, requests, search_term_str>>
    /\ UNCHANGED <<yelpVars, queueVars>>
    /\ GETGone

\* run returned: the stats and, for a status other than 200, the response text
MainAfterRun ==
    /\ pc = "after_run"
    /\ stdout' = stdout \o
            (IF ~response.set
             THEN <<Event("STATS", "-"), Event("FAILED", "AttributeError")>>
             ELSE IF response.status # 200
                  THEN <<Event("STATS", "-"), Event("TEXT", "-")>>
                  ELSE <<Event("STATS", "-")>>)
    /\ wi' = wi + 1
    /\ pc' = "main"
    /\ ResetLocals
    /\ UNCHANGED <<inputVars, DATA, report, requests, wrapperVars>>
    /\ GETGone

\* filetools.csv_out(DATA)
CsvOut ==
    /\ pc = "main"
    /\ wi > Len(wrapper_classes)
    /\ report' = Append(report, csv_file(DATA))
    /\ pc' = "done"
    /\ UNCHANGED <<inputVars, DATA, stdout, requests, wi, wrapperVars, ti, search_term_str>>
    /\ UNCHANGED <<yelpVars, queueVars>>
    /\ GETGone

(***************************************************************************)
(* Yelp__ApiWrapper.run                                                    *)
(***************************************************************************)
\* the display string as a bug would have it: built after the offset was added
YelpSearchTermStrWithOffset(term) ==
    LET paged == DictSet(term, "offset", PyInt(0))
        strs == [n \in 1..Len(paged) |-> StrOf(paged[n].v)]
    IN  JoinStr(SelectSeq(strs, LAMBDA x : Strip(x) # <<>>), <<"|">>)

\* '|'.join([str(v) for v in term.values() if str(v).strip()])
YelpSearchTermStr(term) ==
    LET strs == [n \in 1..Len(term) |-> StrOf(term[n].v)]
    IN  JoinStr(SelectSeq(strs, LAMBDA x : Strip(x) # <<>>), <<"|">>)

\* int(v)
CanInt(v) == v.t \in {"int", "bool"} \/ (v.t = "str" /\ IsIntLiteral(v.s))
IntOf(v) == IF v.t = "str" THEN ParseInt(v.s) ELSE v.i

\* term_limit_user and term_limit_user > self.limit_max_per_offset
Paginates(limit_user) == Truthy(limit_user) /\ limit_user.i > limit_max_per_offset

\* the loop test as a bug would have it: the API ceiling is forgotten
WhileCondNoCeiling(off, limit_user) == off < limit_user.i

\* while offset < term_limit_user and offset < self.yelp_api_results_max_limit
WhileCond(off, limit_user) == off < limit_user.i /\ off < yelp_api_results_max_limit

\* parse_business_search_json_response(businesses, DATA, search_term_str); next term
YelpFinishTerm(all_businesses, response_json) ==
    /\ DATA' = DATA \o
            parse_business_search_json_response(all_businesses, response_json, search_term_str)
    /\ ti' = ti + 1
    /\ pc' = "run"

\* the head of the for loop, up to the single search call or the while loop
YelpTerm ==
    /\ pc = "run"
    /\ cls = YELP
    /\ IF ti > Len(terms)
       THEN /\ pc' = "after_run"
            /\ UNCHANGED <<ti, search_term_str, yelpVars, queueVars>>
            /\ GETGone
            /\ UNCHANGED <<stdout, wi, terms, requests>>
       ELSE LET term == terms[ti]
                limit == DictGet(term, "limit")
                limit_user == IF Truthy(limit) THEN PyInt(IntOf(limit)) ELSE PyNone
            IN  IF ~HasLocator(term, LOCATOR_FIELDS(YELP))
                THEN /\ ti' = ti + 1
                     /\ UNCHANGED <<pc, search_term_str, yelpVars, queueVars>>
                     /\ GETGone
                     /\ UNCHANGED <<stdout, wi, terms, requests>>
                ELSE IF Truthy(limit) /\ ~CanInt(limit)
                THEN /\ Raise("ValueError")
                     /\ UNCHANGED <<terms, requests>>
                     /\ GETGone
                ELSE IF Paginates(limit_user)
                THEN /\ search_term_str' = YelpSearchTermStr(term)
                     /\ businesses' = <<>>
                     /\ term_limit_user' = limit_user
                     /\ offset' = 0
                     /\ terms' = [terms EXCEPT
                                    ![ti] = DictSet(term, "limit", PyInt(limit_max_per_offset))]
                     /\ pc' = "yelp_while"
                     /\ UNCHANGED <<ti, queueVars, stdout, wi, requests>>
                     /\ GETGone
                ELSE /\ search_term_str' = YelpSearchTermStr(term)
                     /\ businesses' = <<>>
                     /\ term_limit_user' = limit_user
                     /\ offset' = 0
                     /\ GETCall("get_yelp_single", "BUSINESS_SEARCH", PyNone, term, ti)
                     /\ UNCHANGED <<ti, queueVars, stdout, wi, terms>>
    /\ UNCHANGED <<inputVars, DATA, report, keys, response>>

\* the head of the while loop: the next page is requested, or the term is finished
YelpWhile ==
    /\ pc = "yelp_while"
    /\ IF WhileCond(offset, term_limit_user)
       THEN /\ terms' = [terms EXCEPT ![ti] = DictSet(terms[ti], "offset", PyInt(offset))]
            /\ GETCall("get_yelp_page", "BUSINESS_SEARCH", PyNone,
                       DictSet(terms[ti], "offset", PyInt(offset)), ti)
            /\ UNCHANGED <<DATA, ti>>
       ELSE /\ YelpFinishTerm(businesses, response.json)
            /\ UNCHANGED <<terms, requests>>
            /\ GETGone
    /\ UNCHANGED <<inputVars, stdout, report, wi, keys, response, search_term_str>>
    /\ UNCHANGED <<yelpVars, queueVars>>

\* a page arrives: offset += 50; the page is kept, or an empty page breaks the loop
YelpPageReturns ==
    /\ pc = "get_yelp_page"
    /\ \E reply \in YelpReplies(offset) :
          /\ GETReturns(reply)
          /\ offset' = offset + offset_step
          /\ IF Get(reply.json, "businesses", <<>>) # <<>>
             THEN /\ businesses' = businesses \o reply.json.businesses
                  /\ pc' = "yelp_while"
                  /\ UNCHANGED <<DATA, ti>>
             ELSE /\ YelpFinishTerm(businesses, reply.json)
                  /\ UNCHANGED businesses
    /\ UNCHANGED <<inputVars, stdout, report, wi, keys, terms>>
    /\ UNCHANGED <<search_term_str, term_limit_user, queueVars>>

\* the single search call of a term that is not paginated returns
YelpSingleReturns ==
    /\ pc = "get_yelp_single"
    /\ \E reply \in YelpReplies(0) :
          /\ GETReturns(reply)
          /\ IF "businesses" \in DOMAIN reply.json
             THEN /\ businesses' = businesses \o reply.json.businesses
                  /\ YelpFinishTerm(businesses \o reply.json.businesses, reply.json)
                  /\ UNCHANGED <<stdout, wi, search_term_str, term_limit_user, offset>>
                  /\ UNCHANGED queueVars
             ELSE /\ Raise("KeyError")
                  /\ UNCHANGED DATA
    /\ UNCHANGED <<inputVars, report, keys, terms>>

(***************************************************************************)
(* The queue of detail terms: venues_details_terms / places_details_terms, *)
(* a defaultdict(list) keyed by the display string.  An entry of a list is *)
(* [term, from]: the detail term, and the index of the term of _terms that *)
(* put it there (`from` is bookkeeping of the model, the code has none).   *)
(***************************************************************************)
QueueHas(q, key) == \E n \in 1..Len(q) : q[n].k = key

\* the queue as a bug would have it: one list, filed under the first display string
QueueExtendFirstKey(q, key, items) ==
    IF q = <<>> THEN <<[k |-> key, v |-> items]>>
    ELSE [n \in 1..Len(q) |-> IF n = 1 THEN [k |-> q[1].k, v |-> q[1].v \o items] ELSE q[n]]

\* q[key].extend(items): a missing key is created by the access
QueueExtend(q, key, items) ==
    IF QueueHas(q, key)
    THEN [n \in 1..Len(q) |-> IF q[n].k = key THEN [k |-> key, v |-> q[n].v \o items] ELSE q[n]]
    ELSE Append(q, [k |-> key, v |-> items])

Entries(id_terms, from) == [n \in 1..Len(id_terms) |-> [term |-> id_terms[n], from |-> from]]

\* self.keys.get(field, '')
KeysGet(field) == IF DictHas(keys, field) THEN PyStr(DictGet(keys, field)) ELSE PyStr(<<>>)

\* '|'.join([v for k, v in term.items() if k not in excluded])
JoinTermValues(term, excluded) ==
    LET kept == SelectSeq(term, LAMBDA e : e.k \notin excluded)
    IN  JoinStr([n \in 1..Len(kept) |-> StrOf(kept[n].v)], <<"|">>)

\* '{},{}'.format(term.pop('latitude'), term.pop('longitude')) stored at `field`
WithCoordinates(term, field) ==
    IF Truthy(DictGet(term, "latitude")) /\ Truthy(DictGet(term, "longitude"))
    THEN DictSet(DictPop(DictPop(term, "latitude"), "longitude"), field,
                 PyStr(StrOf(DictGet(term, "latitude")) \o <<",">>
                       \o StrOf(DictGet(term, "longitude"))))
    ELSE term

(***************************************************************************)
(* Foursquare__ApiWrapper.run                                              *)
(***************************************************************************)
FoursquareCredentials(term) ==
    DictSet(DictSet(DictSet(term, "client_id", KeysGet(<<"client", "id">>)),
                    "client_secret", KeysGet(<<"client", "secret">>)),
            "v", CLOCK)

FoursquareSearchTermStr(term) == JoinTermValues(term, {"client_id", "client_secret"})

\* one term of the search phase; after the last term the detail phase starts
FoursquareTerm ==
    /\ pc = "run"
    /\ cls = FOURSQUARE
    /\ IF ti > Len(terms)
       THEN /\ pc' = "details"
            /\ qi' = 1
            /\ qj' = 1
            /\ UNCHANGED <<ti, search_term_str, queue, terms, requests>>
            /\ GETGone
       ELSE LET term == terms[ti]
                prepared == WithCoordinates(FoursquareCredentials(term), "ll")
            IN  IF ~HasLocator(term, LOCATOR_FIELDS(FOURSQUARE))
                THEN /\ ti' = ti + 1
                     /\ UNCHANGED <<pc, search_term_str, queueVars, terms, requests>>
                     /\ GETGone
                ELSE IF Truthy(DictGet(prepared, "foursquare_id"))
                THEN /\ search_term_str' = FoursquareSearchTermStr(term)
                     /\ terms' = [terms EXCEPT ![ti] = prepared]
                     /\ queue' = QueueExtend(queue, FoursquareSearchTermStr(term),
                            Entries(<<<<[k |-> "foursquare_id",
                                         v |-> DictGet(prepared, "foursquare_id")]>>>>, ti))
                     /\ ti' = ti + 1
                     /\ UNCHANGED <<pc, qi, qj, requests>>
                     /\ GETGone
                ELSE /\ search_term_str' = FoursquareSearchTermStr(term)
                     /\ terms' = [terms EXCEPT ![ti] = prepared]
                     /\ GETCall("get_foursquare_search", "VENUE_SEARCH", PyNone, prepared, ti)
                     /\ UNCHANGED <<ti, queueVars>>
    /\ UNCHANGED <<inputVars, DATA, stdout, report, wi, keys, response, yelpVars>>

\* the search call returns: the ids found are queued under the display string
FoursquareSearchReturns ==
    /\ pc = "get_foursquare_search"
    /\ \E reply \in FoursquareSearchReplies :
          /\ GETReturns(reply)
          /\ queue' = QueueExtend(queue, search_term_str,
                                  Entries(parse_venues_search_json_response(reply.json), ti))
    /\ ti' = ti + 1
    /\ pc' = "run"
    /\ UNCHANGED <<inputVars, DATA, stdout, report, wi, keys, terms>>
    /\ UNCHANGED <<search_term_str, yelpVars, qi, qj>>

\* the detail phase: the next queued term is looked up, or run returns
FoursquareDetailNext ==
    /\ pc = "details"
    /\ cls = FOURSQUARE
    /\ IF qi > Len(queue)
       THEN /\ pc' = "after_run"
            /\ UNCHANGED <<queueVars, search_term_str, requests>>
            /\ GETGone
       ELSE IF qj > Len(queue[qi].v)
       THEN /\ qi' = qi + 1
            /\ qj' = 1
            /\ UNCHANGED <<pc, queue, search_term_str, requests>>
            /\ GETGone
       ELSE LET entry == queue[qi].v[qj]
                term == FoursquareCredentials(entry.term)
            IN  /\ search_term_str' = queue[qi].k
                /\ queue' = [queue EXCEPT ![qi].v[qj].term = DictPop(term, "foursquare_id")]
                /\ GETCall("get_foursquare_detail", "VENUE_DETAILS",
                           DictGet(term, "foursquare_id"), DictPop(term, "foursquare_id"),
                           entry.from)
                /\ UNCHANGED <<qi, qj>>
    /\ UNCHANGED <<inputVars, DATA, stdout, report, wi, wrapperVars, ti, yelpVars>>

\* the detail call returns: one row, or a KeyError when the venue is missing
FoursquareDetailReturns ==
    /\ pc = "get_foursquare_detail"
    /\ \E reply \in FoursquareDetailReplies(requests[Len(requests)].id) :
          /\ GETReturns(reply)
          /\ IF "response" \in DOMAIN reply.json /\ "venue" \in DOMAIN reply.json.response
             THEN /\ DATA' = Append(DATA,
                                    FoursquareRow(reply.json.response.venue, search_term_str))
                  /\ qj' = qj + 1
                  /\ pc' = "details"
                  /\ UNCHANGED <<stdout, wi, ti, search_term_str, yelpVars, queue, qi>>
             ELSE /\ Raise("KeyError")
                  /\ UNCHANGED DATA
    /\ UNCHANGED <<inputVars, report, keys, terms>>

(***************************************************************************)
(* Facebook__ApiWrapper.run                                                *)
(***************************************************************************)
FacebookCredentials(term) == DictSet(term, "access_token", KeysGet(<<"access", "token">>))

FacebookSearchTermStr(term) == JoinTermValues(term, {"access_token"})

FacebookTerm ==
    /\ pc = "run"
    /\ cls = FACEBOOK
    /\ IF ti > Len(terms)
       THEN /\ pc' = "details"
            /\ qi' = 1
            /\ qj' = 1
            /\ UNCHANGED <<ti, search_term_str, queue, terms, requests>>
            /\ GETGone
       ELSE LET term == terms[ti]
                typed == DictSet(FacebookCredentials(term), "type",
                                 PyStr(<<"p", "l", "a", "c", "e">>))
                limited == IF Truthy(DictGet(typed, "limit")) THEN typed
                           ELSE DictSet(typed, "limit", PyInt(FACEBOOK_DEFAULT_LIMIT))
                prepared == WithCoordinates(limited, "center")
            IN  IF ~HasLocator(term, LOCATOR_FIELDS(FACEBOOK))
                THEN /\ ti' = ti + 1
                     /\ UNCHANGED <<pc, search_term_str, queueVars, terms, requests>>
                     /\ GETGone
                ELSE IF Truthy(DictGet(typed, "facebook_id"))
                THEN /\ search_term_str' = FacebookSearchTermStr(term)
                     /\ terms' = [terms EXCEPT ![ti] = typed]
                     /\ queue' = QueueExtend(queue, FacebookSearchTermStr(term),
                            Entries(<<<<[k |-> "facebook_id",
                                         v |-> DictGet(typed, "facebook_id")]>>>>, ti))
                     /\ ti' = ti + 1
                     /\ UNCHANGED <<pc, qi, qj, requests>>
                     /\ GETGone
                ELSE /\ search_term_str' = FacebookSearchTermStr(term)
                     /\ terms' = [terms EXCEPT ![ti] = prepared]
                     /\ GETCall("get_facebook_search", "PLACES_SEARCH", PyNone, prepared, ti)
                     /\ UNCHANGED <<ti, queueVars>>
    /\ UNCHANGED <<inputVars, DATA, stdout, report, wi, keys, response, yelpVars>>

FacebookSearchReturns ==
    /\ pc = "get_facebook_search"
    /\ \E reply \in FacebookSearchReplies :
          /\ GETReturns(reply)
          /\ queue' = QueueExtend(queue, search_term_str,
                                  Entries(parse_places_details_json_response(reply.json), ti))
    /\ ti' = ti + 1
    /\ pc' = "run"
    /\ UNCHANGED <<inputVars, DATA, stdout, report, wi, keys, terms>>
    /\ UNCHANGED <<search_term_str, yelpVars, qi, qj>>

FacebookDetailNext ==
    /\ pc = "details"
    /\ cls = FACEBOOK
    /\ IF qi > Len(queue)
       THEN /\ pc' = "after_run"
            /\ UNCHANGED <<queueVars, search_term_str, requests>>
            /\ GETGone
       ELSE IF qj > Len(queue[qi].v)
       THEN /\ qi' = qi + 1
            /\ qj' = 1
            /\ UNCHANGED <<pc, queue, search_term_str, requests>>
            /\ GETGone
       ELSE LET entry == queue[qi].v[qj]
                term == FacebookCredentials(DictSet(entry.term, "fields", ID_FIELDS_JOINED))
            IN  /\ search_term_str' = queue[qi].k
                /\ queue' = [queue EXCEPT ![qi].v[qj].term = DictPop(term, "facebook_id")]
                /\ GETCall("get_facebook_info", "PLACE_INFORMATION",
                           DictGet(term, "facebook_id"), DictPop(term, "facebook_id"),
                           entry.from)
                /\ UNCHANGED <<qi, qj>>
    /\ UNCHANGED <<inputVars, DATA, stdout, report, wi, wrapperVars, ti, yelpVars>>

FacebookInfoReturns ==
    /\ pc = "get_facebook_info"
    /\ \E reply \in FacebookInfoReplies(requests[Len(requests)].id) :
          /\ GETReturns(reply)
          /\ DATA' = Append(DATA, FacebookRow(reply.json, search_term_str))
    /\ qj' = qj + 1
    /\ pc' = "details"
    /\ UNCHANGED <<inputVars, stdout, report, wi, keys, terms>>
    /\ UNCHANGED <<ti, search_term_str, yelpVars, queue, qi>>

Next ==
    \/ MainLoop
    \/ MainAfterRun
    \/ CsvOut
    \/ GETFails
    \/ YelpTerm
    \/ YelpWhile
    \/ YelpPageReturns
    \/ YelpSingleReturns
    \/ FoursquareTerm
    \/ FoursquareSearchReturns
    \/ FoursquareDetailNext
    \/ FoursquareDetailReturns
    \/ FacebookTerm
    \/ FacebookSearchReturns
    \/ FacebookDetailNext
    \/ FacebookInfoReturns

Spec == Init /\ [][Next]_vars

\* the wrappers constructed with each errors_limit, on inputs that reach every call
InitRetry ==
    /\ \E sc \in RetryScenarios : wrapper_classes = sc[1] /\ INPUT_FILES = sc[2]
    /\ requirements = KeysAll
    /\ errors_limit \in ErrorsLimits
    /\ InitProgram

SpecRetry == InitRetry /\ [][Next]_vars

(***************************************************************************)
(* Properties                                                              *)
(***************************************************************************)
LastEvent == stdout[Len(stdout)]

\* C1: with errors_limit = L >= 1, a GET call keeps trying while fewer than L
\* attempts have failed; a success after fewer than L failures returns that reply
\* to the wrapper and nothing is raised; the L-th failure raises
\* RequestEngineError, after exactly L attempts, and the call is left.
C1_RetryPolicy ==
    errors_limit >= 1 =>
        /\ get_status = "running" =>
              /\ errors < errors_limit
              /\ attempts = errors
              /\ pc \in GetPcs
        /\ get_status = "returned" =>
              /\ errors < errors_limit
              /\ attempts = errors + 1
              /\ response = requests[Len(requests)].reply
              /\ response.set
              /\ stdout # <<>> /\ LastEvent.exc # "RequestEngineError"
        /\ get_status = "raised" =>
              /\ errors = errors_limit
              /\ attempts = errors_limit
              /\ pc \notin GetPcs
              /\ LastEvent = [ev |-> "FAILED", cls |-> wrapper_classes[wi - 1],
                              exc |-> "RequestEngineError"]

\* two failures, then a success, under the default limit of 3
C1_Witness == errors_limit = 3 /\ get_status = "returned" /\ errors = 2

\* C2: whatever errors_limit is, 0 and negative values included, a GET call makes
\* at most max(errors_limit, 1) attempts.
C2_AttemptsBounded == attempts <= (IF errors_limit > 1 THEN errors_limit ELSE 1)

\* the terms of a wrapper class as parse_terms read them, before run touches them
OrigTerms(alias) == parse_terms(TERMS_HEADERS(alias))

\* the search calls issued for term t of a wrapper class, in the order issued
SearchesIn(log, alias, t) ==
    SelectSeq(log, LAMBDA r : r.api = alias /\ r.term = t /\ r.id = PyNone)

SearchesOf(alias, t) == SearchesIn(requests, alias, t)

\* the limit a Yelp term asks for, 0 when it asks for none
RequestedLimit(t) ==
    LET limit == DictGet(OrigTerms(YELP)[t], "limit")
    IN  IF limit.t = "str" /\ IsIntLiteral(limit.s) THEN ParseInt(limit.s) ELSE 0

\* the offsets 0, 50, 100, ... that are below both n and 1000
ExpectedOffsets(n) == {o \in {50 * k : k \in 0..20} : o < n /\ o < 1000}

PageSize(r) == Len(Get(r.reply.json, "businesses", <<>>))

InRun(alias) ==
    /\ wi <= Len(wrapper_classes)
    /\ cls = alias
    /\ pc \notin {"main", "done"}

\* C3: the search requests of a Yelp term with a limit N > 50 carry the offsets
\* 0, 50, 100, ... in this order, one request each, all below N and below 1000; a
\* page with zero businesses is the last one requested; and once the term is
\* finished, either every offset below N and 1000 was requested or the last page
\* was empty.  A term with no limit or a limit of at most 50 that is finished
\* had exactly one request, without offset.
C3_YelpPagination ==
    \A t \in 1..Len(OrigTerms(YELP)) :
        LET R == SearchesOf(YELP, t)
            N == RequestedLimit(t)
            finished == InRun(YELP) /\ ti > t
                        /\ HasLocator(OrigTerms(YELP)[t], LOCATOR_FIELDS(YELP))
        IN  IF N > 50
            THEN /\ \A n \in 1..Len(R) :
                       /\ DictGet(R[n].params, "offset") = PyInt(50 * (n - 1))
                       /\ 50 * (n - 1) \in ExpectedOffsets(N)
                       /\ n < Len(R) => PageSize(R[n]) > 0
                 /\ finished =>
                       \/ Len(R) = Cardinality(ExpectedOffsets(N))
                       \/ Len(R) >= 1 /\ PageSize(R[Len(R)]) = 0
            ELSE /\ Len(R) <= 1
                 /\ \A n \in 1..Len(R) : ~DictHas(R[n].params, "offset")
                 /\ finished => Len(R) = 1

\* a term with limit 120 is finished after exactly the pages 0, 50 and 100
C3_Witness ==
    /\ InRun(YELP)
    /\ \E t \in 1..Len(OrigTerms(YELP)) :
          /\ t < ti
          /\ RequestedLimit(t) = 120
          /\ Len(SearchesOf(YELP, t)) = 3
          /\ PageSize(SearchesOf(YELP, t)[3]) > 0

\* the wrapper classes main has constructed so far, in order
Attempted ==
    LET running == SelectSeq(stdout, LAMBDA e : e.ev = "RUNNING")
    IN  [n \in 1..Len(running) |-> running[n].cls]

HasEvent(ev, exc) == \E n \in 1..Len(stdout) : stdout[n].ev = ev /\ stdout[n].exc = exc

\* C4: whatever each wrapper's outcome (no keys, RequestEngineError, another
\* exception, success), main attempts the wrapper classes in list order, never
\* stops before the report, and writes the report exactly once, after the last
\* wrapper was attempted.
C4_RunnerResilience ==
    /\ Attempted = SubSeq(wrapper_classes, 1, IF pc \in {"main", "done"} THEN wi - 1 ELSE wi)
    /\ Len(report) <= 1
    /\ (Len(report) = 1) <=> (pc = "done")
    /\ pc = "done" => Attempted = wrapper_classes
    /\ pc # "done" => ENABLED Next

\* three wrappers: one without keys, one failing in GET, one succeeding; report written
C4_Witness ==
    /\ pc = "done"
    /\ Len(wrapper_classes) = 3
    /\ Len(report) = 1
    /\ HasEvent("KEYS", "KeysParserError")
    /\ HasEvent("FAILED", "RequestEngineError")
    /\ LastEvent.ev = "STATS"

\* the GET calls issued by the k-th wrapper of main's list
RequestsBy(k) == SelectSeq(requests, LAMBDA r : r.api = wrapper_classes[k])

\* C5: the buffer is only ever appended to; a step in which GET raises
\* RequestEngineError leaves the buffer as it is, ends that wrapper's run and hands
\* over to the next wrapper (logged as FAILED); a wrapper main has left issues no
\* further request; and the report holds one line per buffered row, in order.
C5_FailureSemantics ==
    [][/\ IsPrefix(DATA, DATA')
       /\ (pc \in GetPcs /\ get_status' = "raised") =>
             /\ DATA' = DATA
             /\ requests' = requests
             /\ wi' = wi + 1
             /\ pc' = "main"
             /\ stdout' = Append(stdout, [ev |-> "FAILED", cls |-> cls,
                                          exc |-> "RequestEngineError"])
       /\ wi' >= wi
       /\ \A k \in 1..Len(wrapper_classes) : k < wi => RequestsBy(k)' = RequestsBy(k)
       /\ pc' = "done" =>
             /\ Len(report') = 1
             /\ report'[1].lines = [n \in 1..Len(DATA) |-> csv_line(DATA[n])]
      ]_vars

\* GET has just raised with rows in the buffer and another wrapper still to come
C5_Witness ==
    /\ get_status = "raised"
    /\ DATA # <<>>
    /\ wi <= Len(wrapper_classes)

\* the requirements file holds a usable credential for the alias: a line with the
\* hash sign whose header names the alias and whose value is neither empty nor
\* the placeholder
Configured(alias) ==
    \E n \in 1..Len(requirements) :
        /\ requirements[n].hash
        /\ \E w \in 1..Len(requirements[n].header) : requirements[n].header[w] = alias
        /\ Strip(requirements[n].value) \notin {<<>>, KEY_PLACEHOLDER}

\* API_SOURCE of the rows of a wrapper class
SourceName(alias) ==
    CASE alias = YELP -> <<"y", "e", "l", "p">>
      [] alias = FOURSQUARE -> <<"f", "o", "u", "r", "s", "q", "u", "a", "r", "e">>
      [] alias = FACEBOOK -> <<"f", "a", "c", "e", "b", "o", "o", "k">>

RowsOf(alias) == SelectSeq(DATA, LAMBDA row : row.API_SOURCE.s = SourceName(alias))

\* C6: a wrapper without a usable credential never enters run, issues no GET call
\* and appends no row; main reports the missing keys and goes on.
C6_NoKeysNoRequests ==
    \A k \in 1..Len(wrapper_classes) :
        ~Configured(wrapper_classes[k]) =>
            /\ RequestsBy(k) = <<>>
            /\ RowsOf(wrapper_classes[k]) = <<>>
            /\ wi = k => pc = "main"
            /\ wi > k => \E n \in 1..Len(stdout) :
                            stdout[n] = [ev |-> "KEYS", cls |-> wrapper_classes[k],
                                         exc |-> "KeysParserError"]

\* a wrapper without keys was passed over while another one filled the buffer
C6_Witness ==
    /\ pc = "done"
    /\ DATA # <<>>
    /\ \E k \in 1..Len(wrapper_classes) : ~Configured(wrapper_classes[k])

\* the fields that locate a search, under the names TERMS_HEADERS gives them
ClaimedLocators(alias) ==
    CASE alias = YELP -> <<"term", "location", "latitude", "longitude">>
      [] alias = FOURSQUARE -> <<"query", "near", "latitude", "longitude", "foursquare_id">>
      [] alias = FACEBOOK -> <<"q", "latitude", "longitude", "facebook_id">>

\* C7: in every wrapper's run, a term with none of the provider's locator fields
\* (text query or location, coordinates, entity id) is passed over without a
\* request or a row, and a term with one of them populated is not passed over.
C7_TermSkipping ==
    [][(pc = "run" /\ wi <= Len(wrapper_classes) /\ ti \in 1..Len(terms)) =>
          LET populated == HasLocator(OrigTerms(cls)[ti], ClaimedLocators(cls))
              skipped == /\ ti' = ti + 1
                         /\ pc' = "run"
                         /\ requests' = requests
                         /\ queue' = queue
                         /\ DATA' = DATA
          IN  populated <=> ~skipped
      ]_vars

\* C8: each cell of the report is the record's value when the record has that
\* column with a non-blank value, and the placeholder '-' exactly when the column
\* is absent or blank; a 0 is a value and passes through.
C8_CellRendering ==
    pc = "done" =>
        \A n \in 1..Len(DATA) : \A c \in 1..Len(CSV_HEADERS) :
            LET h == CSV_HEADERS[c]
                present == h \in DOMAIN DATA[n] /\ Strip(StrOf(DATA[n][h])) # <<>>
            IN  report[1].lines[n][c] = IF present THEN DATA[n][h] ELSE Dash

\* '|'.join of the values of a term as read from the input
DisplayString(term) == JoinStr([n \in 1..Len(term) |-> term[n].v.s], <<"|">>)

IsDetail(r) == r.id # PyNone

IdField(alias) == IF alias = FOURSQUARE THEN "foursquare_id" ELSE "facebook_id"

\* the ids the reply of a search call holds
IdsFound(r) ==
    LET found == IF r.api = FOURSQUARE THEN parse_venues_search_json_response(r.reply.json)
                 ELSE parse_places_details_json_response(r.reply.json)
    IN  {found[n][1].v : n \in 1..Len(found)}

TwoPhaseLog ==
    \A i \in 1..Len(requests) :
        requests[i].api \in {FOURSQUARE, FACEBOOK} =>
            LET r == requests[i]
                orig == OrigTerms(r.api)[r.term]
            IN  IF IsDetail(r)
                THEN /\ \A j \in (i + 1)..Len(requests) :
                           requests[j].api = r.api => IsDetail(requests[j])
                     /\ \/ DictGet(orig, IdField(r.api)) = r.id
                        \/ \E j \in 1..(i - 1) :
                              /\ requests[j].api = r.api
                              /\ ~IsDetail(requests[j])
                              /\ requests[j].term = r.term
                              /\ r.id \in IdsFound(requests[j])
                ELSE ~DictHas(orig, IdField(r.api))

\* C9: in a Foursquare or Facebook run no search call follows a detail call; a
\* term that supplies an id issues no search call; every detail call looks up an
\* id that its originating term supplied or that the search for that term found;
\* and the row it yields carries that term's display string as QUERY.
C9_TwoPhase ==
    [][/\ TwoPhaseLog'
       /\ (pc \in {"get_foursquare_detail", "get_facebook_info"} /\ DATA' # DATA) =>
             /\ Len(DATA') = Len(DATA) + 1
             /\ DATA'[Len(DATA')].QUERY =
                   PyStr(DisplayString(OrigTerms(cls)[requests[Len(requests)].term]))
      ]_vars

\* a detail row for the first of two terms with different display strings, after
\* both searches
C9_Witness ==
    /\ InRun(FOURSQUARE)
    /\ pc = "details"
    /\ Len(OrigTerms(FOURSQUARE)) = 2
    /\ DisplayString(OrigTerms(FOURSQUARE)[1]) # DisplayString(OrigTerms(FOURSQUARE)[2])
    /\ Len(SearchesOf(FOURSQUARE, 1)) = 1
    /\ Len(SearchesOf(FOURSQUARE, 2)) = 1
    /\ Len(queue) = 2
    /\ qi = 2
    /\ DATA # <<>>
    /\ DATA[1].QUERY = PyStr(DisplayString(OrigTerms(FOURSQUARE)[1]))

\* the businesses of the pages fetched for Yelp term t, in response order
RECURSIVE Accumulated(_)
Accumulated(pages) ==
    IF pages = <<>> THEN <<>>
    ELSE Get(Head(pages).reply.json, "businesses", <<>>) \o Accumulated(Tail(pages))

\* C10: the step that finishes a Yelp term appends exactly one row per business
\* of the pages fetched for it, in response order, each with API_SOURCE 'yelp',
\* the display string of the term as read from the input as QUERY, and the
\* number of rows appended as TOTAL_EXTRACTED; no other step of a Yelp run
\* appends a row.
C10_YelpRows ==
    [][InRun(YELP) =>
          IF pc \in {"yelp_while", "get_yelp_page", "get_yelp_single"} /\ pc' = "run"
          THEN LET acc == Accumulated(SearchesIn(requests', YELP, ti))
               IN  /\ Len(DATA') = Len(DATA) + Len(acc)
                   /\ IsPrefix(DATA, DATA')
                   /\ \A n \in 1..Len(acc) :
                         LET row == DATA'[Len(DATA) + n]
                         IN  /\ row.API_SOURCE = PyStr(<<"y", "e", "l", "p">>)
                             /\ row.QUERY = PyStr(DisplayString(OrigTerms(YELP)[ti]))
                             /\ row.TOTAL_EXTRACTED = PyInt(Len(acc))
                             /\ row.ID = Get(acc[n], "id", Dash)
          ELSE DATA' = DATA
      ]_vars

\* the single term {location} with a reply of 2 businesses: a report of 2 lines,
\* both from yelp and with the same QUERY
C10_Witness ==
    /\ pc = "done"
    /\ wrapper_classes = <<YELP>>
    /\ INPUT_FILES = <<File(<<RowLocation>>)>>
    /\ Len(report[1].lines) = 2
    /\ report[1].lines[1][5] = PyStr(<<"y", "e", "l", "p">>)
    /\ report[1].lines[2][5] = PyStr(<<"y", "e", "l", "p">>)
    /\ report[1].lines[1][1] = PyStr(S_NY)
    /\ report[1].lines[2][1] = PyStr(S_NY)

\* the events main printed for the wrapper it is leaving in this step
NewEvents == SubSeq(stdout', Len(stdout) + 1, Len(stdout'))

\* C11: a wrapper that has keys and whose run returned without raising, the run
\* that had no term to process or skipped every term included, is not logged as
\* FAILED by main.
C11_FailedOnlyOnRaise ==
    [][pc = "after_run" =>
          \A n \in 1..Len(NewEvents) : NewEvents[n].ev # "FAILED"
      ]_vars

\* the limit parameter a search request carries, 0 when it carries none
SentLimit(r) ==
    LET limit == DictGet(r.params, "limit")
    IN  IF limit.t = "int" THEN limit.i
        ELSE IF limit.t = "str" /\ IsIntLiteral(limit.s) THEN ParseInt(limit.s) ELSE 0

\* every page fetched for the term holds at most as many businesses as the
\* per-page limit its request asked for
PagesWithinLimit(pages) ==
    \A n \in 1..Len(pages) : PageSize(pages[n]) <= SentLimit(pages[n])

\* C12: when every page holds at most the per-page limit of its request, the
\* rows run appends for a Yelp term with a requested limit are at most that limit
\* and at most 1000, for limits above 50 that are not multiples of 50 too.
C12_YelpResultBound ==
    [][(/\ InRun(YELP)
        /\ pc \in {"yelp_while", "get_yelp_page", "get_yelp_single"}
        /\ pc' = "run"
        /\ RequestedLimit(ti) > 0
        /\ PagesWithinLimit(SearchesIn(requests', YELP, ti))) =>
            /\ Len(DATA') - Len(DATA) <= RequestedLimit(ti)
            /\ Len(DATA') - Len(DATA) <= yelp_api_results_max_limit
      ]_vars

====
